---- MODULE Spec2Model ----
(***************************************************************************)
(* minitunnel: the relay (cmd/server), the agent (cmd/agent) and the       *)
(* message codec (internal/protocol) as one state machine.                 *)
(*                                                                         *)
(* Strings are sequences of one-character strings, so that TrimPrefix,     *)
(* SplitN, Contains and len are computed as the Go code computes them.     *)
(* A message on a stream is a record; its tag field is a ghost: it names   *)
(* the public call a request was built for (a response carries the tag of  *)
(* the request it answers).  The code has no such field and never reads    *)
(* it; only the properties do.                                             *)
(***************************************************************************)
EXTENDS Naturals, Integers, Sequences, FiniteSets, TLC

\* ------------------------------------------------------------------ bounds
\* heartbeats one agent may emit (the ticker is unbounded in the code)
MaxHeartbeats == 1

\* ------------------------------------------------------- program constants
\* cmd/server/main.go:162   len(parts[0]) > 30
IDLenThreshold == 30
StatusBadRequest == 400
StatusNotFound == 404
StatusInternalServerError == 500
StatusBadGateway == 502
StatusServiceUnavailable == 503

\* ------------------------------------------------------------- the actors
\* transport connections (one agent process each) and public HTTP calls
Conns == {"c1", "c2"}
Reqs == {"r1", "r2"}
NoReq == "-"
NoConn == "-"

\* ---------------------------------------------------------------- strings
RECURSIVE Rep(_, _)
Rep(ch, n) == IF n = 0 THEN <<>> ELSE <<ch>> \o Rep(ch, n - 1)

\* strings.Contains(s, ch) for a one-character needle
Contains(s, ch) == \E i \in 1..Len(s) : s[i] = ch

\* strings.Index(s, ch), 1-based; 0 when absent
IndexOf(s, ch) ==
    IF Contains(s, ch) THEN CHOOSE i \in 1..Len(s) : s[i] = ch /\ \A j \in 1..(i - 1) : s[j] # ch
    ELSE 0

\* strings.TrimPrefix(s, "/")
TrimPrefix(s) == IF Len(s) > 0 /\ s[1] = "/" THEN Tail(s) ELSE s

\* strings.SplitN(s, "/", 2)
SplitN2(s) ==
    LET i == IndexOf(s, "/") IN
    IF i = 0 THEN <<s>> ELSE <<SubSeq(s, 1, i - 1), SubSeq(s, i + 1, Len(s))>>

\* uuid.New().String(): 8-4-4-4-12, 36 characters; the n-th identifier drawn
HexDigit == <<"1", "2", "3", "4", "5", "6", "7", "8", "9">>
UUIDString(n) ==
    LET d == HexDigit[n] IN
    Rep(d, 8) \o <<"-">> \o Rep(d, 4) \o <<"-">> \o Rep(d, 4) \o <<"-">> \o Rep(d, 4)
        \o <<"-">> \o Rep(d, 12)

\* ------------------------------------------------------------- the codec
MsgTypeHello == "hello"
MsgTypeWelcome == "welcome"
MsgTypeRequest == "request"
MsgTypeResponse == "response"
MsgTypeHeartbeat == "heartbeat"
\* the tail of a frame whose head an earlier decoder already took
Fragment == "fragment"

\* Message{Type, Payload}.  Of the payload the model keeps the status code
\* and the body of an HTTPResponse and whether json.Unmarshal accepts it
\* (valid).  fwdErr is a ghost like tag: the response was made from a failed
\* local forward.
Message(t, tag, st) ==
    [type |-> t, tag |-> tag, status |-> st, body |-> <<>>, valid |-> TRUE, fwdErr |-> FALSE]
\* a message of the same type whose payload does not parse
BadPayload(m) == [m EXCEPT !.valid = FALSE]

\* faulty variant: a type check that accepts every message
WrongTypeNever(m, t) == FALSE
\* msg.Type != protocol.MsgTypeX
WrongType(m, t) == m.type # t

\* WriteMessage: one frame appended to the stream's direction
WriteMessage(q, m) == Append(q, m)

\* ReadMessage on a direction holding q (non-empty): a fresh json.Decoder
\* returns the first value; its buffer, filled by whole stream reads, is then
\* thrown away, so the frames after the first that had already arrived are
\* consumed as far as the transport's read happened to reach: used frames are
\* gone, the last of them possibly only in part.
ReadOutcomes(q) ==
    { [msg |-> Head(q), rest |-> SubSeq(q, k + 1, Len(q)), used |-> k] : k \in 1..Len(q) }
    \cup
    { [msg |-> Head(q),
       rest |-> <<Message(Fragment, NoReq, 0)>> \o SubSeq(q, k + 1, Len(q)),
       used |-> k] : k \in 2..Len(q) }

\* ------------------------------------------------------------------ state
VARIABLES
    conn,        \* conn[c]: "none" | "up" | "down"    the QUIC connection
    srvPc,       \* relay handleAgentConnection(c): "idle","accept","hello","welcome","wait","done"
    agPc,        \* agent Start(c): "idle","dialed","welcome","loop","done","failed";
                 \* "stalled","foreign": a peer that is not this agent
    hb,          \* heartbeats agent c has written
    s2a,         \* relay -> agent direction of the stream
    a2s,         \* agent -> relay direction of the stream
    s2aFin,      \* the relay closed its sending side (stream.Close)
    cid,         \* clientID the relay generated for c (<<>> before)
    nextID,      \* identifiers drawn so far + 1
    clients,     \* Server.clients: clientID -> connection (its ClientInfo)
    mu,          \* ClientInfo.mu: the call holding it, or NoReq
    hPc,         \* handleHTTPRequest(r): "idle","load","body","lock","write","read","done"
    hPath,       \* r.URL.Path
    hQuery,      \* r.URL.RawQuery
    hClientID,   \* local clientID
    hReqPath,    \* local requestPath
    hInfo,       \* local clientInfo (the connection), NoConn before Load
    hStatus,     \* status written to the public caller, 0 before
    hGot,        \* ghost: tag of the response the call returned
    hSeen,       \* ghost: DOMAIN clients when the call ran Range (bare paths)
    outstanding, \* ghost: calls whose request is written and whose response the relay has not consumed
    nLock,       \* ghost: times call r acquired a ClientInfo.mu
    nUnlock,     \* ghost: times call r released it
    nWrite,      \* ghost: request messages call r has written
    rw,          \* the response a call passes on: what the agent sent (resp), for
                 \* which clientID, and what is written to the caller (out);
                 \* stage: "none", "read", "written"
    srv          \* the relay process: its configured port and how far main has
                 \* come: "parsed", "rejected", "validated", "serving", "fatal"

connVars == <<conn, srvPc, agPc, hb, s2a, a2s, s2aFin, cid, nextID, clients>>
httpVars == <<mu, hPc, hPath, hQuery, hClientID, hReqPath, hInfo, hStatus, hGot, hSeen, outstanding,
              nLock, nUnlock, nWrite, rw, srv>>
vars == <<conn, srvPc, agPc, hb, s2a, a2s, s2aFin, cid, nextID, clients,
          mu, hPc, hPath, hQuery, hClientID, hReqPath, hInfo, hStatus, hGot, hSeen, outstanding,
          nLock, nUnlock, nWrite, rw, srv>>

\* flag.IntVar(&cfg.Port, "port", 8080, ...)
DefaultPort == 8080
\* the relay runs with its default configuration
Serving == [port |-> DefaultPort, stage |-> "serving"]

\* no response is being passed on
NoResponse == [headers |-> <<>>, body |-> <<>>]
NoRewrite == [clientID |-> <<>>, resp |-> NoResponse, out |-> NoResponse, stage |-> "none"]

Init ==
    /\ conn = [c \in Conns |-> "none"]
    /\ srvPc = [c \in Conns |-> "idle"]
    /\ agPc = [c \in Conns |-> "idle"]
    /\ hb = [c \in Conns |-> 0]
    /\ s2a = [c \in Conns |-> <<>>]
    /\ a2s = [c \in Conns |-> <<>>]
    /\ s2aFin = [c \in Conns |-> FALSE]
    /\ cid = [c \in Conns |-> <<>>]
    /\ nextID = 1
    /\ clients = [k \in {} |-> NoConn]
    /\ mu = [c \in Conns |-> NoReq]
    /\ hPc = [r \in Reqs |-> "idle"]
    /\ hPath = [r \in Reqs |-> <<>>]
    /\ hQuery = [r \in Reqs |-> <<>>]
    /\ hClientID = [r \in Reqs |-> <<>>]
    /\ hReqPath = [r \in Reqs |-> <<>>]
    /\ hInfo = [r \in Reqs |-> NoConn]
    /\ hStatus = [r \in Reqs |-> 0]
    /\ hGot = [r \in Reqs |-> NoReq]
    /\ hSeen = [r \in Reqs |-> {}]
    /\ outstanding = [c \in Conns |-> {}]
    /\ nLock = [r \in Reqs |-> 0]
    /\ nUnlock = [r \in Reqs |-> 0]
    /\ nWrite = [r \in Reqs |-> 0]
    /\ rw = NoRewrite
    /\ srv = Serving

\* ------------------------------------------------------------ the registry
\* sync.Map Store / Delete / Load on Server.clients
Store(m, k, v) == [x \in DOMAIN m \cup {k} |-> IF x = k THEN v ELSE m[x]]
\* faulty variant: a handler that returns without clients.Delete
DeleteNothing(m, k) == m
Delete(m, k) == [x \in DOMAIN m \ {k} |-> m[x]]
Registered(k) == k \in DOMAIN clients

\* faulty variant: an identifier generator that repeats itself
NewClientIDRepeated(n) == UUIDString(1)
\* uuid.New().String(): a fresh identifier per call
NewClientID(n) == UUIDString(n)

\* a stream Read or Write on c fails once the connection has terminated
Broken(c) == conn[c] = "down"

\* ------------------------------------------------- the transport (environment)
\* The connection ends for a reason outside both programs (idle timeout,
\* network failure).  Data in flight is lost with it.
ConnDown(c) ==
    /\ conn[c] = "up"
    /\ conn' = [conn EXCEPT ![c] = "down"]
    /\ s2a' = [s2a EXCEPT ![c] = <<>>]
    /\ a2s' = [a2s EXCEPT ![c] = <<>>]
    /\ UNCHANGED <<srvPc, agPc, hb, s2aFin, cid, nextID, clients>>
    /\ UNCHANGED httpVars

\* ---------------------------------------------- relay: handleAgentConnection
\* conn.AcceptStream(ctx): the stream exists for the relay once the agent
\* has written on it.
SrvAcceptStream(c) ==
    /\ srvPc[c] = "accept"
    /\ \/ /\ ~Broken(c)
          /\ agPc[c] \notin {"idle", "dialed"}
          /\ srvPc' = [srvPc EXCEPT ![c] = "hello"]
       \/ /\ Broken(c)
          /\ srvPc' = [srvPc EXCEPT ![c] = "done"]
    /\ UNCHANGED <<conn, agPc, hb, s2a, a2s, s2aFin, cid, nextID, clients>>
    /\ UNCHANGED httpVars

\* the 5 s context expires before any stream arrived: return, nothing registered
SrvAcceptTimeout(c) ==
    /\ srvPc[c] = "accept"
    /\ ~Broken(c)
    /\ agPc[c] \in {"idle", "dialed"}
    /\ srvPc' = [srvPc EXCEPT ![c] = "done"]
    /\ UNCHANGED <<conn, agPc, hb, s2a, a2s, s2aFin, cid, nextID, clients>>
    /\ UNCHANGED httpVars

\* ReadMessage(stream) for the hello; on hello: uuid.New, clients.Store
SrvReadHello(c) ==
    /\ srvPc[c] = "hello"
    /\ \/ /\ Broken(c)
          /\ srvPc' = [srvPc EXCEPT ![c] = "done"]
          /\ s2aFin' = [s2aFin EXCEPT ![c] = TRUE]
          /\ UNCHANGED <<a2s, cid, nextID, clients>>
       \/ /\ ~Broken(c)
          /\ a2s[c] # <<>>
          /\ \E o \in ReadOutcomes(a2s[c]) :
                /\ a2s' = [a2s EXCEPT ![c] = o.rest]
                /\ IF WrongType(o.msg, MsgTypeHello)
                   THEN /\ srvPc' = [srvPc EXCEPT ![c] = "done"]
                        /\ s2aFin' = [s2aFin EXCEPT ![c] = TRUE]
                        /\ UNCHANGED <<cid, nextID, clients>>
                   ELSE /\ cid' = [cid EXCEPT ![c] = NewClientID(nextID)]
                        /\ nextID' = nextID + 1
                        /\ clients' = Store(clients, NewClientID(nextID), c)
                        /\ srvPc' = [srvPc EXCEPT ![c] = "welcome"]
                        /\ UNCHANGED s2aFin
    /\ UNCHANGED <<conn, agPc, hb, s2a>>
    /\ UNCHANGED httpVars

\* the deferred calls of a registered handler: clients.Delete, stream.Close
SrvReturn(c) ==
    /\ clients' = Delete(clients, cid[c])
    /\ s2aFin' = [s2aFin EXCEPT ![c] = TRUE]
    /\ srvPc' = [srvPc EXCEPT ![c] = "done"]

\* NewWelcomeMessage + WriteMessage(stream, welcomeMsg)
SrvWriteWelcome(c) ==
    /\ srvPc[c] = "welcome"
    /\ \/ /\ Broken(c)
          /\ SrvReturn(c)
          /\ UNCHANGED s2a
       \/ /\ ~Broken(c)
          /\ s2a' = [s2a EXCEPT ![c] = WriteMessage(s2a[c], Message(MsgTypeWelcome, NoReq, 0))]
          /\ srvPc' = [srvPc EXCEPT ![c] = "wait"]
          /\ UNCHANGED <<s2aFin, clients>>
    /\ UNCHANGED <<conn, agPc, hb, a2s, cid, nextID>>
    /\ UNCHANGED httpVars

\* <-conn.Context().Done() returns: the handler ends
SrvDisconnected(c) ==
    /\ srvPc[c] = "wait"
    /\ Broken(c)
    /\ SrvReturn(c)
    /\ UNCHANGED <<conn, agPc, hb, s2a, a2s, cid, nextID>>
    /\ UNCHANGED httpVars

\* --------------------------------------------------------- agent: Start
\* Start returns: the deferred stream.Close and conn.CloseWithError end the
\* connection, and the process exits (the heartbeat task with it).
AgentExit(c) ==
    /\ agPc' = [agPc EXCEPT ![c] = "done"]
    /\ conn' = [conn EXCEPT ![c] = "down"]
    /\ s2a' = [s2a EXCEPT ![c] = <<>>]
    /\ a2s' = [a2s EXCEPT ![c] = <<>>]

\* Start returns an error before the agent is established (hello not
\* written, no valid welcome read): the same deferred calls run.
AgentFail(c) ==
    /\ agPc' = [agPc EXCEPT ![c] = "failed"]
    /\ conn' = [conn EXCEPT ![c] = "down"]
    /\ s2a' = [s2a EXCEPT ![c] = <<>>]
    /\ a2s' = [a2s EXCEPT ![c] = <<>>]

\* what a peer may send first: the agent of this repository sends hello
FirstMessageTypes == {MsgTypeHello, MsgTypeHeartbeat}

\* A peer that is not the agent of this repository writes the first bytes of
\* a frame and no more: the stream exists for the relay (AcceptStream
\* returns), no message is complete (ReadMessage waits).
PeerOpenStream(c) ==
    /\ agPc[c] = "dialed"
    /\ ~Broken(c)
    /\ agPc' = [agPc EXCEPT ![c] = "stalled"]
    /\ UNCHANGED <<conn, srvPc, hb, s2a, a2s, s2aFin, cid, nextID, clients>>
    /\ UNCHANGED httpVars

\* A peer that is not the agent of this repository sends a first message
\* that is no hello, and nothing after it.
PeerSendOther(c) ==
    /\ agPc[c] = "dialed"
    /\ ~Broken(c)
    /\ \E t \in FirstMessageTypes \ {MsgTypeHello} :
          a2s' = [a2s EXCEPT ![c] = WriteMessage(a2s[c], Message(t, NoReq, 0))]
    /\ agPc' = [agPc EXCEPT ![c] = "foreign"]
    /\ UNCHANGED <<conn, srvPc, hb, s2a, s2aFin, cid, nextID, clients>>
    /\ UNCHANGED httpVars

\* quic.DialAddr + OpenStreamSync; the relay's accept loop spawns the handler
AgentDial(c) ==
    /\ agPc[c] = "idle"
    /\ agPc' = [agPc EXCEPT ![c] = "dialed"]
    /\ conn' = [conn EXCEPT ![c] = "up"]
    /\ srvPc' = [srvPc EXCEPT ![c] = "accept"]
    /\ UNCHANGED <<hb, s2a, a2s, s2aFin, cid, nextID, clients>>
    /\ UNCHANGED httpVars

\* WriteMessage(stream, helloMsg)
AgentSendHello(c) ==
    /\ agPc[c] = "dialed"
    /\ \/ /\ Broken(c)
          /\ AgentFail(c)
       \/ /\ ~Broken(c)
          /\ a2s' = [a2s EXCEPT ![c] = WriteMessage(a2s[c], Message(MsgTypeHello, NoReq, 0))]
          /\ agPc' = [agPc EXCEPT ![c] = "welcome"]
          /\ UNCHANGED <<conn, s2a>>
    /\ UNCHANGED <<srvPc, hb, s2aFin, cid, nextID, clients>>
    /\ UNCHANGED httpVars

\* ReadMessage(stream) for the welcome; then go sendHeartbeats, handleRequests
AgentReadWelcome(c) ==
    /\ agPc[c] = "welcome"
    /\ \/ /\ Broken(c) \/ (s2a[c] = <<>> /\ s2aFin[c])
          /\ AgentFail(c)
       \/ /\ ~Broken(c)
          /\ s2a[c] # <<>>
          /\ \E o \in ReadOutcomes(s2a[c]) :
                IF ~WrongType(o.msg, MsgTypeWelcome) /\ o.msg.valid
                THEN /\ s2a' = [s2a EXCEPT ![c] = o.rest]
                     /\ agPc' = [agPc EXCEPT ![c] = "loop"]
                     /\ UNCHANGED <<conn, a2s>>
                ELSE AgentFail(c)
    /\ UNCHANGED <<srvPc, hb, s2aFin, cid, nextID, clients>>
    /\ UNCHANGED httpVars

\* sendHeartbeats: one tick of the ticker, WriteMessage(stream, heartbeat)
AgentHeartbeat(c) ==
    /\ agPc[c] = "loop"
    /\ ~Broken(c)
    /\ hb[c] < MaxHeartbeats
    /\ hb' = [hb EXCEPT ![c] = hb[c] + 1]
    /\ a2s' = [a2s EXCEPT ![c] = WriteMessage(a2s[c], Message(MsgTypeHeartbeat, NoReq, 0))]
    /\ UNCHANGED <<conn, srvPc, agPc, s2a, s2aFin, cid, nextID, clients>>
    /\ UNCHANGED httpVars

\* forwardToLocal: the local service's response (here with an empty body), or
\* an error
LocalStatuses == {200}
ForwardResults ==
    { [err |-> FALSE, status |-> st, body |-> <<>>] : st \in LocalStatuses }
    \cup { [err |-> TRUE, status |-> 0, body |-> <<>>] }

\* fmt.Sprintf("Error: %v", err)
ErrorBody == <<"E", "r", "r", "o", "r", ":", " ", "x">>
\* faulty variant: the synthetic response without its body
ErrorResponseEmpty == [status |-> StatusBadGateway, body |-> <<>>]
\* the HTTPResponse made when forwardToLocal fails
ErrorResponse == [status |-> StatusBadGateway, body |-> ErrorBody]

\* NewResponseMessage(httpResp), httpResp being the local response or the
\* synthetic one
NewResponseMessage(tag, res) ==
    LET httpResp == IF res.err THEN ErrorResponse
                    ELSE [status |-> res.status, body |-> res.body]
    IN [Message(MsgTypeResponse, tag, httpResp.status) EXCEPT
            !.body = httpResp.body, !.fwdErr = res.err]

\* handleRequests: one iteration of the loop
AgentHandleRequest(c) ==
    /\ agPc[c] = "loop"
    /\ \/ /\ Broken(c) \/ (s2a[c] = <<>> /\ s2aFin[c])
          /\ AgentExit(c)
       \/ /\ ~Broken(c)
          /\ s2a[c] # <<>>
          /\ \E o \in ReadOutcomes(s2a[c]) :
                CASE o.msg.type = Fragment -> AgentExit(c)
                  [] ~WrongType(o.msg, MsgTypeRequest) /\ o.msg.valid ->
                        /\ s2a' = [s2a EXCEPT ![c] = o.rest]
                        /\ \E res \in ForwardResults :
                              a2s' = [a2s EXCEPT ![c] =
                                  WriteMessage(a2s[c], NewResponseMessage(o.msg.tag, res))]
                        /\ UNCHANGED <<conn, agPc>>
                  [] OTHER ->
                        /\ s2a' = [s2a EXCEPT ![c] = o.rest]
                        /\ UNCHANGED <<conn, agPc, a2s>>
    /\ UNCHANGED <<srvPc, hb, s2aFin, cid, nextID, clients>>
    /\ UNCHANGED httpVars

\* ------------------------------------------------- relay: handleHTTPRequest
\* the public requests tried: <<r.URL.Path, r.URL.RawQuery>>
Str1(ch) == <<ch>>
Slash == Str1("/")
LongID == Rep("a", IDLenThreshold) \o Str1("-")          \* 31 characters, a hyphen
ShortID == Rep("a", IDLenThreshold - 1) \o Str1("-")     \* 30 characters, a hyphen
PlainID == Rep("a", IDLenThreshold + 6)                  \* 36 characters, no hyphen
Inputs ==
    { <<Slash, <<>>>>,
      <<Slash \o <<"x">>, <<"q">>>>,
      <<Slash \o UUIDString(1), <<>>>>,
      <<Slash \o UUIDString(1) \o Slash, <<"q">>>>,
      <<Slash \o UUIDString(2) \o Slash \o <<"x", "/", "y">>, <<>>>>,
      <<Slash \o LongID \o Slash \o <<"x">>, <<>>>>,
      <<Slash \o ShortID \o Slash \o <<"x">>, <<>>>>,
      <<Slash \o PlainID \o Slash \o <<"x">>, <<"q">>>> }
\* the two forms of a routable request, for the runs with concurrent calls
CoreInputs ==
    { <<Slash \o <<"x">>, <<"q">>>>,
      <<Slash \o UUIDString(1) \o Slash, <<"q">>>> }

\* parts := strings.SplitN(strings.TrimPrefix(r.URL.Path, "/"), "/", 2)
Parts(path) == SplitN2(TrimPrefix(path))

\* faulty variant: the length test off by one, >= 30
LooksLikeUUIDFrom30(parts) ==
    Len(parts) > 0 /\ Len(parts[1]) >= IDLenThreshold /\ Contains(parts[1], "-")
\* len(parts) > 0 && len(parts[0]) > 30 && strings.Contains(parts[0], "-")
LooksLikeUUID(parts) ==
    Len(parts) > 0 /\ Len(parts[1]) > IDLenThreshold /\ Contains(parts[1], "-")

\* requestPath of the /uuid/path branch
PrefixedRequestPath(parts) ==
    IF Len(parts) > 1 /\ parts[2] # <<>> THEN Slash \o parts[2] ELSE Slash

\* faulty variant: the query string is not re-appended
PreserveQueryDropped(requestPath, query) == requestPath
\* if r.URL.RawQuery != "" { requestPath += "?" + r.URL.RawQuery }
PreserveQuery(requestPath, query) ==
    IF query # <<>> THEN requestPath \o Str1("?") \o query ELSE requestPath

\* clients.Range(...): the keys visited (foundClientID is the last of them).
\* The walk is taken as one step: the registry does not change under it.
RangeKeys == DOMAIN clients

\* http.Error(w, ..., st) / w.WriteHeader(st), and the handler returns: its
\* locals are gone
Reply(r, st) ==
    /\ hStatus' = [hStatus EXCEPT ![r] = st]
    /\ hPc' = [hPc EXCEPT ![r] = "done"]
    /\ hClientID' = [hClientID EXCEPT ![r] = <<>>]
    /\ hReqPath' = [hReqPath EXCEPT ![r] = <<>>]
    /\ hInfo' = [hInfo EXCEPT ![r] = NoConn]

\* faulty variant: no agents answered like an unknown tunnel
FallbackStatusNotFound(count) ==
    IF count = 0 THEN StatusNotFound
    ELSE IF count > 1 THEN StatusBadRequest
    ELSE 0
\* faulty variant: the ambiguity test off by one, count > 2
FallbackStatusFrom3(count) ==
    IF count = 0 THEN StatusServiceUnavailable
    ELSE IF count > 2 THEN StatusBadRequest
    ELSE 0
\* the fallback's verdict on the count of registered agents (0: route to the one)
FallbackStatus(count) ==
    IF count = 0 THEN StatusServiceUnavailable
    ELSE IF count > 1 THEN StatusBadRequest
    ELSE 0

\* routing: the path is split; a UUID-like first segment names the agent,
\* otherwise clients.Range counts the registered agents
HTTPRoute(r, in) ==
    LET path == in[1]
        query == in[2]
        parts == Parts(path)
        count == Cardinality(RangeKeys)
    IN
    /\ hPc[r] = "idle"
    /\ hPath' = [hPath EXCEPT ![r] = path]
    /\ hQuery' = [hQuery EXCEPT ![r] = query]
    /\ IF LooksLikeUUID(parts)
       THEN /\ hClientID' = [hClientID EXCEPT ![r] = parts[1]]
            /\ hReqPath' = [hReqPath EXCEPT ![r] =
                                PreserveQuery(PrefixedRequestPath(parts), query)]
            /\ hPc' = [hPc EXCEPT ![r] = "load"]
            /\ UNCHANGED <<hSeen, hStatus, hInfo>>
       ELSE /\ hSeen' = [hSeen EXCEPT ![r] = RangeKeys]
            /\ IF FallbackStatus(count) # 0 THEN Reply(r, FallbackStatus(count))
               ELSE /\ hClientID' = [hClientID EXCEPT ![r] = CHOOSE k \in RangeKeys : TRUE]
                    /\ hReqPath' = [hReqPath EXCEPT ![r] = PreserveQuery(path, query)]
                    /\ hPc' = [hPc EXCEPT ![r] = "load"]
                    /\ UNCHANGED <<hStatus, hInfo>>
    /\ UNCHANGED <<mu, hGot, outstanding, nLock, nUnlock, nWrite>>
    /\ UNCHANGED connVars
    /\ UNCHANGED <<rw, srv>>

\* faulty variant: an unknown key falls back to the only registered agent
LoadOrOnly(k) ==
    IF k \in DOMAIN clients THEN clients[k]
    ELSE IF Cardinality(DOMAIN clients) = 1
         THEN clients[CHOOSE x \in DOMAIN clients : TRUE]
         ELSE NoConn
\* value, ok := s.clients.Load(clientID): NoConn stands for !ok
Load(k) == IF k \in DOMAIN clients THEN clients[k] ELSE NoConn

\* clients.Load(clientID); io.ReadAll(r.Body); NewRequestMessage
HTTPLoad(r) ==
    /\ hPc[r] = "load"
    /\ IF Load(hClientID[r]) = NoConn
       THEN Reply(r, StatusNotFound)
       ELSE \/ /\ hInfo' = [hInfo EXCEPT ![r] = Load(hClientID[r])]
               /\ hPc' = [hPc EXCEPT ![r] = "lock"]
               /\ UNCHANGED <<hStatus, hClientID, hReqPath>>
            \/ Reply(r, StatusInternalServerError)
    /\ UNCHANGED <<mu, hPath, hQuery, hGot, hSeen, outstanding, nLock, nUnlock, nWrite>>
    /\ UNCHANGED connVars
    /\ UNCHANGED <<rw, srv>>

\* faulty variant: a Lock that never waits
MutexFreeAlways(c) == TRUE
\* sync.Mutex on ClientInfo
MutexFree(c) == mu[c] = NoReq

\* faulty variant: a return path that leaves the mutex locked
UnlockForgotten(r, c) ==
    /\ mu' = mu
    /\ nUnlock' = nUnlock
\* clientInfo.mu.Unlock()
Unlock(r, c) ==
    /\ mu' = [mu EXCEPT ![c] = NoReq]
    /\ nUnlock' = [nUnlock EXCEPT ![r] = nUnlock[r] + 1]

\* clientInfo.mu.Lock()
HTTPLock(r) ==
    /\ hPc[r] = "lock"
    /\ MutexFree(hInfo[r])
    /\ mu' = [mu EXCEPT ![hInfo[r]] = r]
    /\ nLock' = [nLock EXCEPT ![r] = nLock[r] + 1]
    /\ hPc' = [hPc EXCEPT ![r] = "write"]
    /\ UNCHANGED <<hPath, hQuery, hClientID, hReqPath, hInfo, hStatus, hGot, hSeen,
                   outstanding, nUnlock, nWrite>>
    /\ UNCHANGED connVars
    /\ UNCHANGED <<rw, srv>>

\* WriteMessage(stream, reqMsg); on error Unlock and 502
HTTPWrite(r) ==
    LET c == hInfo[r] IN
    /\ hPc[r] = "write"
    /\ IF Broken(c)
       THEN /\ Unlock(r, c)
            /\ Reply(r, StatusBadGateway)
            /\ UNCHANGED <<s2a, outstanding, nWrite>>
       ELSE /\ s2a' = [s2a EXCEPT ![c] = WriteMessage(s2a[c], Message(MsgTypeRequest, r, 0))]
            /\ outstanding' = [outstanding EXCEPT ![c] = outstanding[c] \cup {r}]
            /\ nWrite' = [nWrite EXCEPT ![r] = nWrite[r] + 1]
            /\ hPc' = [hPc EXCEPT ![r] = "read"]
            /\ UNCHANGED <<mu, nUnlock, hStatus, hClientID, hReqPath, hInfo>>
    /\ UNCHANGED <<hPath, hQuery, hGot, hSeen, nLock>>
    /\ UNCHANGED <<conn, srvPc, agPc, hb, a2s, s2aFin, cid, nextID, clients>>
    /\ UNCHANGED <<rw, srv>>

\* ghost: the calls whose response the first n frames of q held
ResponseTags(q, n) == { q[i].tag : i \in { j \in 1..n : q[j].type = MsgTypeResponse } }

\* ReadMessage(stream); Unlock; the type check; the reply to the caller
HTTPRead(r) ==
    LET c == hInfo[r] IN
    /\ hPc[r] = "read"
    /\ Unlock(r, c)
    /\ \/ /\ Broken(c)
          /\ Reply(r, StatusBadGateway)
          /\ UNCHANGED <<a2s, hGot, outstanding>>
       \/ /\ ~Broken(c)
          /\ a2s[c] # <<>>
          /\ \E o \in ReadOutcomes(a2s[c]) :
                /\ a2s' = [a2s EXCEPT ![c] = o.rest]
                /\ outstanding' = [outstanding EXCEPT ![c] =
                                       outstanding[c] \ ResponseTags(a2s[c], o.used)]
                /\ IF ~WrongType(o.msg, MsgTypeResponse) /\ o.msg.valid
                   THEN /\ Reply(r, o.msg.status)
                        /\ hGot' = [hGot EXCEPT ![r] = o.msg.tag]
                   ELSE /\ Reply(r, StatusBadGateway)
                        /\ UNCHANGED hGot
    /\ UNCHANGED <<hPath, hQuery, hSeen, nLock, nWrite>>
    /\ UNCHANGED <<conn, srvPc, agPc, hb, s2a, s2aFin, cid, nextID, clients>>
    /\ UNCHANGED <<rw, srv>>

Next ==
    \/ \E c \in Conns : ConnDown(c)
    \/ \E c \in Conns : SrvAcceptStream(c)
    \/ \E c \in Conns : SrvAcceptTimeout(c)
    \/ \E c \in Conns : SrvReadHello(c)
    \/ \E c \in Conns : SrvWriteWelcome(c)
    \/ \E c \in Conns : SrvDisconnected(c)
    \/ \E c \in Conns : AgentDial(c)
    \/ \E c \in Conns : PeerOpenStream(c)
    \/ \E c \in Conns : PeerSendOther(c)
    \/ \E c \in Conns : AgentSendHello(c)
    \/ \E c \in Conns : AgentReadWelcome(c)
    \/ \E c \in Conns : AgentHeartbeat(c)
    \/ \E c \in Conns : AgentHandleRequest(c)
    \/ \E r \in Reqs : \E in \in CoreInputs : HTTPRoute(r, in)
    \/ \E r \in Reqs : HTTPLoad(r)
    \/ \E r \in Reqs : HTTPLock(r)
    \/ \E r \in Reqs : HTTPWrite(r)
    \/ \E r \in Reqs : HTTPRead(r)

Spec == Init /\ [][Next]_vars

\* ---------------------------------------- the agent against any relay
\* messages of the stream a peer relay has sent (bound of the agent runs)
MaxStream == 3
\* what a peer relay may send: the messages of this relay and ones whose
\* payload does not parse
PeerMessages ==
    { Message(MsgTypeWelcome, NoReq, 0),
      BadPayload(Message(MsgTypeWelcome, NoReq, 0)),
      Message(MsgTypeRequest, "r1", 0),
      Message(MsgTypeRequest, "r2", 0),
      BadPayload(Message(MsgTypeRequest, "r1", 0)),
      Message(MsgTypeHeartbeat, NoReq, 0) }
PeerStreams == UNION { [1..n -> PeerMessages] : n \in 0..MaxStream }

\* Agent c1 has dialed and opened its stream; the relay -> agent direction
\* holds what the peer sends, closed after it or left open.
AgentInit ==
    /\ conn = [c \in Conns |-> IF c = "c1" THEN "up" ELSE "none"]
    /\ srvPc = [c \in Conns |-> "idle"]
    /\ agPc = [c \in Conns |-> IF c = "c1" THEN "dialed" ELSE "idle"]
    /\ hb = [c \in Conns |-> 0]
    /\ \E q \in PeerStreams : s2a = [c \in Conns |-> IF c = "c1" THEN q ELSE <<>>]
    /\ a2s = [c \in Conns |-> <<>>]
    /\ \E fin \in BOOLEAN : s2aFin = [c \in Conns |-> c = "c1" /\ fin]
    /\ cid = [c \in Conns |-> <<>>]
    /\ nextID = 1
    /\ clients = [k \in {} |-> NoConn]
    /\ mu = [c \in Conns |-> NoReq]
    /\ hPc = [r \in Reqs |-> "idle"]
    /\ hPath = [r \in Reqs |-> <<>>]
    /\ hQuery = [r \in Reqs |-> <<>>]
    /\ hClientID = [r \in Reqs |-> <<>>]
    /\ hReqPath = [r \in Reqs |-> <<>>]
    /\ hInfo = [r \in Reqs |-> NoConn]
    /\ hStatus = [r \in Reqs |-> 0]
    /\ hGot = [r \in Reqs |-> NoReq]
    /\ hSeen = [r \in Reqs |-> {}]
    /\ outstanding = [c \in Conns |-> {}]
    /\ nLock = [r \in Reqs |-> 0]
    /\ nUnlock = [r \in Reqs |-> 0]
    /\ nWrite = [r \in Reqs |-> 0]
    /\ rw = NoRewrite
    /\ srv = Serving

AgentNext ==
    \/ ConnDown("c1")
    \/ AgentSendHello("c1")
    \/ AgentReadWelcome("c1")
    \/ AgentHeartbeat("c1")
    \/ AgentHandleRequest("c1")

AgentSpec == AgentInit /\ [][AgentNext]_vars

\* One public call, every form of path: the router against every registry.
SingleCallNext ==
    \/ \E c \in Conns : ConnDown(c)
    \/ \E c \in Conns : SrvAcceptStream(c)
    \/ \E c \in Conns : SrvAcceptTimeout(c)
    \/ \E c \in Conns : SrvReadHello(c)
    \/ \E c \in Conns : SrvWriteWelcome(c)
    \/ \E c \in Conns : SrvDisconnected(c)
    \/ \E c \in Conns : AgentDial(c)
    \/ \E c \in Conns : PeerOpenStream(c)
    \/ \E c \in Conns : PeerSendOther(c)
    \/ \E c \in Conns : AgentSendHello(c)
    \/ \E c \in Conns : AgentReadWelcome(c)
    \/ \E c \in Conns : AgentHeartbeat(c)
    \/ \E c \in Conns : AgentHandleRequest(c)
    \/ \E in \in Inputs : HTTPRoute("r1", in)
    \/ HTTPLoad("r1")
    \/ HTTPLock("r1")
    \/ HTTPWrite("r1")
    \/ HTTPRead("r1")

SingleCallSpec == Init /\ [][SingleCallNext]_vars

\* The relay's goroutines are scheduled: a handler step that stays possible is
\* taken.  Nothing is assumed of the agents, the network or the 5 s timer.
RelayFairness ==
    /\ \A c \in Conns : WF_vars(SrvAcceptStream(c))
    /\ \A c \in Conns : WF_vars(SrvReadHello(c))
    /\ \A c \in Conns : WF_vars(SrvWriteWelcome(c))
    /\ \A c \in Conns : WF_vars(SrvDisconnected(c))
    /\ \A r \in Reqs : WF_vars(HTTPLoad(r))
    /\ \A r \in Reqs : WF_vars(HTTPWrite(r))
    /\ \A r \in Reqs : WF_vars(HTTPRead(r))
    /\ \A r \in Reqs : SF_vars(HTTPLock(r))

FairSpec == Spec /\ RelayFairness
FairSingleCallSpec == SingleCallSpec /\ RelayFairness

\* ------------------------------------- the relay's calls against any agent
\* messages a peer may have waiting on the agent -> relay direction
MaxReplies == 2
\* what an established peer may send: the responses of this agent, a
\* response whose payload does not parse, a heartbeat
PeerReplies ==
    { NewResponseMessage(NoReq, res) : res \in ForwardResults }
    \cup { BadPayload(Message(MsgTypeResponse, NoReq, 0)),
           Message(MsgTypeHeartbeat, NoReq, 0) }

\* an established peer writes a message, whenever it likes
PeerSend(c) ==
    /\ agPc[c] = "foreign"
    /\ srvPc[c] = "wait"
    /\ ~Broken(c)
    /\ Len(a2s[c]) < MaxReplies
    /\ \E m \in PeerReplies : a2s' = [a2s EXCEPT ![c] = WriteMessage(a2s[c], m)]
    /\ UNCHANGED <<conn, srvPc, agPc, hb, s2a, s2aFin, cid, nextID, clients>>
    /\ UNCHANGED httpVars

\* One Session is established on c1 (hello read, clientID stored, welcome
\* written and taken by the peer); no public call has arrived yet.
RelayInit ==
    /\ conn = [c \in Conns |-> IF c = "c1" THEN "up" ELSE "none"]
    /\ srvPc = [c \in Conns |-> IF c = "c1" THEN "wait" ELSE "idle"]
    /\ agPc = [c \in Conns |-> IF c = "c1" THEN "foreign" ELSE "idle"]
    /\ hb = [c \in Conns |-> 0]
    /\ s2a = [c \in Conns |-> <<>>]
    /\ a2s = [c \in Conns |-> <<>>]
    /\ s2aFin = [c \in Conns |-> FALSE]
    /\ cid = [c \in Conns |-> IF c = "c1" THEN NewClientID(1) ELSE <<>>]
    /\ nextID = 2
    /\ clients = Store([k \in {} |-> NoConn], NewClientID(1), "c1")
    /\ mu = [c \in Conns |-> NoReq]
    /\ hPc = [r \in Reqs |-> "idle"]
    /\ hPath = [r \in Reqs |-> <<>>]
    /\ hQuery = [r \in Reqs |-> <<>>]
    /\ hClientID = [r \in Reqs |-> <<>>]
    /\ hReqPath = [r \in Reqs |-> <<>>]
    /\ hInfo = [r \in Reqs |-> NoConn]
    /\ hStatus = [r \in Reqs |-> 0]
    /\ hGot = [r \in Reqs |-> NoReq]
    /\ hSeen = [r \in Reqs |-> {}]
    /\ outstanding = [c \in Conns |-> {}]
    /\ nLock = [r \in Reqs |-> 0]
    /\ nUnlock = [r \in Reqs |-> 0]
    /\ nWrite = [r \in Reqs |-> 0]
    /\ rw = NoRewrite
    /\ srv = Serving

RelayNext ==
    \/ ConnDown("c1")
    \/ SrvDisconnected("c1")
    \/ PeerSend("c1")
    \/ \E r \in Reqs : \E in \in CoreInputs : HTTPRoute(r, in)
    \/ \E r \in Reqs : HTTPLoad(r)
    \/ \E r \in Reqs : HTTPLock(r)
    \/ \E r \in Reqs : HTTPWrite(r)
    \/ \E r \in Reqs : HTTPRead(r)

RelaySpec == RelayInit /\ [][RelayNext]_vars
FairRelaySpec == RelaySpec /\ RelayFairness

\* context.WithTimeout(..., 5*time.Second): the timer of AcceptStream, while
\* it is what the handler waits on, does expire
TimerFairness == \A c \in Conns : WF_vars(SrvAcceptTimeout(c))
FairHandshakeSpec == SingleCallSpec /\ RelayFairness /\ TimerFairness

\* ------------------------------------ relay: the response passed on (257-291)
\* strings.Index(s, sub), 1-based; 0 when sub does not occur
StrIndex(s, sub) ==
    LET at(i) == SubSeq(s, i, i + Len(sub) - 1) = sub
        hits == { i \in 1..(Len(s) - Len(sub) + 1) : at(i) }
    IN IF hits = {} THEN 0 ELSE CHOOSE i \in hits : \A j \in hits : i <= j
\* strings.Contains(s, sub)
StrContains(s, sub) == StrIndex(s, sub) # 0
\* strings.Replace(s, old, new, 1)
ReplaceFirst(s, old, new) ==
    LET i == StrIndex(s, old) IN
    IF i = 0 THEN s
    ELSE SubSeq(s, 1, i - 1) \o new \o SubSeq(s, i + Len(old), Len(s))

HeadLower == <<"<", "h", "e", "a", "d", ">">>
HeadUpper == <<"<", "H", "E", "A", "D", ">">>
TextHTML == <<"t", "e", "x", "t", "/", "h", "t", "m", "l">>
KeyContentType == <<"C", "o", "n", "t", "e", "n", "t", "-", "T", "y", "p", "e">>
KeyContentLength == <<"C", "o", "n", "t", "e", "n", "t", "-", "L", "e", "n", "g", "t", "h">>
\* fmt.Sprintf(`<base href="/%s/">`, clientID)
BaseTag(clientID) == <<"<", "b", "a", "s", "e", " ", "h", "r", "e", "f", "=", "\"", "/">> \o clientID \o <<"/", "\"", ">">>

\* textproto.CanonicalMIMEHeaderKey, which Header.Add applies to its key: the
\* first letter and every letter after a hyphen upper case, the others lower
LowerLetters == <<"a", "c", "d", "e", "g", "h", "l", "n", "o", "p", "t", "x", "y">>
UpperLetters == <<"A", "C", "D", "E", "G", "H", "L", "N", "O", "P", "T", "X", "Y">>
ToUpper(ch) ==
    IF \E i \in 1..Len(LowerLetters) : LowerLetters[i] = ch
    THEN UpperLetters[CHOOSE i \in 1..Len(LowerLetters) : LowerLetters[i] = ch]
    ELSE ch
ToLower(ch) ==
    IF \E i \in 1..Len(UpperLetters) : UpperLetters[i] = ch
    THEN LowerLetters[CHOOSE i \in 1..Len(UpperLetters) : UpperLetters[i] = ch]
    ELSE ch
CanonicalMIMEHeaderKey(k) ==
    [i \in 1..Len(k) |-> IF i = 1 \/ k[i - 1] = "-" THEN ToUpper(k[i]) ELSE ToLower(k[i])]

\* contentType: httpResp.Headers["Content-Type"][0], "" without that key
ContentTypeOf(headers) ==
    IF KeyContentType \in DOMAIN headers /\ Len(headers[KeyContentType]) > 0
    THEN headers[KeyContentType][1]
    ELSE <<>>
\* the body after the injection of the base tag
RewriteBody(clientID, headers, body) ==
    IF StrContains(ContentTypeOf(headers), TextHTML)
    THEN IF StrContains(body, HeadLower)
         THEN ReplaceFirst(body, HeadLower, HeadLower \o BaseTag(clientID))
         ELSE IF StrContains(body, HeadUpper)
              THEN ReplaceFirst(body, HeadUpper, HeadUpper \o BaseTag(clientID))
              ELSE body
    ELSE body
\* delete(httpResp.Headers, key)
DeleteHeader(headers, key) == [k \in DOMAIN headers \ {key} |-> headers[k]]
\* for key, values := range headers { w.Header().Add(key, value) ... }: the
\* caller's header map (no two keys of the responses tried share a canonical
\* form, so the order of the range does not show)
AddHeaders(headers) ==
    [K \in { CanonicalMIMEHeaderKey(k) : k \in DOMAIN headers } |->
        headers[CHOOSE k \in DOMAIN headers : CanonicalMIMEHeaderKey(k) = K]]
\* what handleHTTPRequest writes to the caller for the agent's response
RewriteResponse(clientID, resp) ==
    [headers |-> AddHeaders(DeleteHeader(resp.headers, KeyContentLength)),
     body |-> RewriteBody(clientID, resp.headers, resp.body)]

\* pieces a response body is put together from, and how many of them
MaxPieces == 3
Pieces == { HeadLower, HeadUpper, <<"<", "h", "e">>, <<"x">> }
RECURSIVE Flatten(_)
Flatten(ss) == IF ss = <<>> THEN <<>> ELSE Head(ss) \o Flatten(Tail(ss))
Bodies == UNION { { Flatten(f) : f \in [1..n -> Pieces] } : n \in 0..MaxPieces }
\* values of a Content-Type header
ContentTypeValues ==
    { <<>>,
      <<TextHTML>>,
      <<TextHTML \o <<";", "x">>>>,
      << <<"t", "e", "x", "t", "/", "x">>, TextHTML >> }
\* header maps as json.Unmarshal yields them from a peer's payload: keys as
\* the peer spelled them
HeaderMaps ==
    LET ct == { {} } \cup { { <<k, v>> } : k \in {KeyContentType, <<"c", "o", "n", "t", "e", "n", "t", "-", "t", "y", "p", "e">>},
                                           v \in ContentTypeValues }
        cl == { {}, { <<KeyContentLength, << <<"9">> >> >> },
                { << <<"c", "o", "n", "t", "e", "n", "t", "-", "l", "e", "n", "g", "t", "h">>, << <<"9">> >> >> } }
        other == { << <<"x", "-", "a">>, << <<"1">> >> >> }
        mk(ps) == [k \in { p[1] : p \in ps } |-> (CHOOSE p \in ps : p[1] = k)[2]]
    IN { mk(a \cup b \cup other) : a \in ct, b \in cl }

\* an agent's response has been read and decoded for a call routed to the
\* first clientID; nothing is written to the caller yet
RewriteInit ==
    /\ conn = [c \in Conns |-> "none"]
    /\ srvPc = [c \in Conns |-> "idle"]
    /\ agPc = [c \in Conns |-> "idle"]
    /\ hb = [c \in Conns |-> 0]
    /\ s2a = [c \in Conns |-> <<>>]
    /\ a2s = [c \in Conns |-> <<>>]
    /\ s2aFin = [c \in Conns |-> FALSE]
    /\ cid = [c \in Conns |-> <<>>]
    /\ nextID = 1
    /\ clients = [k \in {} |-> NoConn]
    /\ mu = [c \in Conns |-> NoReq]
    /\ hPc = [r \in Reqs |-> "idle"]
    /\ hPath = [r \in Reqs |-> <<>>]
    /\ hQuery = [r \in Reqs |-> <<>>]
    /\ hClientID = [r \in Reqs |-> <<>>]
    /\ hReqPath = [r \in Reqs |-> <<>>]
    /\ hInfo = [r \in Reqs |-> NoConn]
    /\ hStatus = [r \in Reqs |-> 0]
    /\ hGot = [r \in Reqs |-> NoReq]
    /\ hSeen = [r \in Reqs |-> {}]
    /\ outstanding = [c \in Conns |-> {}]
    /\ nLock = [r \in Reqs |-> 0]
    /\ nUnlock = [r \in Reqs |-> 0]
    /\ nWrite = [r \in Reqs |-> 0]
    /\ \E h \in HeaderMaps : \E b \in Bodies :
          rw = [clientID |-> NewClientID(1), resp |-> [headers |-> h, body |-> b],
                out |-> NoResponse, stage |-> "read"]
    /\ srv = Serving

\* lines 257-291: the headers and the body are written to the caller
WriteResponse ==
    /\ rw.stage = "read"
    /\ rw' = [rw EXCEPT !.out = RewriteResponse(rw.clientID, rw.resp), !.stage = "written"]
    /\ UNCHANGED connVars
    /\ UNCHANGED <<mu, hPc, hPath, hQuery, hClientID, hReqPath, hInfo, hStatus, hGot, hSeen,
                   outstanding, nLock, nUnlock, nWrite, srv>>

RewriteNext == WriteResponse
RewriteSpec == RewriteInit /\ [][RewriteNext]_vars

\* ------------------------------------------- relay: main, the configuration
\* config.go:44   c.Port < 1 || c.Port > 65535
MinPort == 1
MaxPort == 65535
\* ServerConfig.Validate: nil (TRUE) or an error
Validate(port) == ~(port < MinPort \/ port > MaxPort)
\* fmt.Sprintf(":%d", s.config.Port+1): the public HTTP port (Go int, 64
\* bits: no wrap-around in this range)
HTTPPort(port) == port + 1
\* http.ListenAndServe(addr, mux) can bind addr: the net package takes ports
\* 0..65535 and fails with "invalid port" beyond
Listenable(p) == p >= 0 /\ p <= MaxPort

\* values of the -port flag tried: this far around both ends of the range
PortWindow == 40
Ports ==
    (0..PortWindow) \cup ((MaxPort - PortWindow)..(MaxPort + PortWindow))

\* main has parsed its flags; no agent, no public call yet
ConfigInit ==
    /\ conn = [c \in Conns |-> "none"]
    /\ srvPc = [c \in Conns |-> "idle"]
    /\ agPc = [c \in Conns |-> "idle"]
    /\ hb = [c \in Conns |-> 0]
    /\ s2a = [c \in Conns |-> <<>>]
    /\ a2s = [c \in Conns |-> <<>>]
    /\ s2aFin = [c \in Conns |-> FALSE]
    /\ cid = [c \in Conns |-> <<>>]
    /\ nextID = 1
    /\ clients = [k \in {} |-> NoConn]
    /\ mu = [c \in Conns |-> NoReq]
    /\ hPc = [r \in Reqs |-> "idle"]
    /\ hPath = [r \in Reqs |-> <<>>]
    /\ hQuery = [r \in Reqs |-> <<>>]
    /\ hClientID = [r \in Reqs |-> <<>>]
    /\ hReqPath = [r \in Reqs |-> <<>>]
    /\ hInfo = [r \in Reqs |-> NoConn]
    /\ hStatus = [r \in Reqs |-> 0]
    /\ hGot = [r \in Reqs |-> NoReq]
    /\ hSeen = [r \in Reqs |-> {}]
    /\ outstanding = [c \in Conns |-> {}]
    /\ nLock = [r \in Reqs |-> 0]
    /\ nUnlock = [r \in Reqs |-> 0]
    /\ nWrite = [r \in Reqs |-> 0]
    /\ rw = NoRewrite
    /\ \E p \in Ports : srv = [port |-> p, stage |-> "parsed"]

\* main: cfg.Validate(); on an error log.Fatalf("Invalid configuration")
MainValidate ==
    /\ srv.stage = "parsed"
    /\ srv' = [srv EXCEPT !.stage = IF Validate(srv.port) THEN "validated" ELSE "rejected"]
    /\ UNCHANGED connVars
    /\ UNCHANGED <<mu, hPc, hPath, hQuery, hClientID, hReqPath, hInfo, hStatus, hGot, hSeen,
                   outstanding, nLock, nUnlock, nWrite, rw>>

\* Server.Start, go s.startHTTPServer(): ListenAndServe on Port+1; on an
\* error log.Fatalf("HTTP server error") ends the process
StartHTTPServer ==
    /\ srv.stage = "validated"
    /\ srv' = [srv EXCEPT !.stage =
                  IF Listenable(HTTPPort(srv.port)) THEN "serving" ELSE "fatal"]
    /\ UNCHANGED connVars
    /\ UNCHANGED <<mu, hPc, hPath, hQuery, hClientID, hReqPath, hInfo, hStatus, hGot, hSeen,
                   outstanding, nLock, nUnlock, nWrite, rw>>

ConfigNext ==
    \/ MainValidate
    \/ StartHTTPServer
ConfigSpec == ConfigInit /\ [][ConfigNext]_vars

\* ================================================================ properties
\* the call is between Lock and Unlock: its write-request/read-reply cycle
InCycle(r) == hPc[r] \in {"write", "read"}
\* the call has resolved its Session and not yet returned
Resolved(r) == hPc[r] \in {"lock", "write", "read"}

\* C1: two relay calls resolved to the same Session are never both inside
\* their write-request/read-reply cycle; the one inside holds the Session
\* lock, and a request is written only by the holder.
C1_CyclesNeverOverlap ==
    /\ \A r1 \in Reqs : \A r2 \in Reqs :
          (r1 # r2 /\ InCycle(r1) /\ InCycle(r2)) => hInfo[r1] # hInfo[r2]
    /\ \A r \in Reqs : InCycle(r) => mu[hInfo[r]] = r
C1_Witness ==
    \E r1 \in Reqs : \E r2 \in Reqs :
        /\ r1 # r2
        /\ hPc[r1] = "read"
        /\ hPc[r2] = "lock"
        /\ hInfo[r1] = hInfo[r2]

\* C2: the response a relay call returns to its caller is the response the
\* agent produced for that call's own request.
C2_ResponseMatchesRequest ==
    \A r \in Reqs : hGot[r] # NoReq => hGot[r] = r

\* C3: per Session, at most one request is written whose response the relay
\* has not yet read off the stream.
C3_AtMostOneOutstanding ==
    \A c \in Conns : Cardinality(outstanding[c]) <= 1

\* a valid hello was received on c (the relay generated its clientID)
HelloReceived(c) == cid[c] # <<>>
\* c's clientID is a key of the registry
InRegistry(c) == HelloReceived(c) /\ Registered(cid[c]) /\ clients[cid[c]] = c
\* the handler of c has returned
HandlerReturned(c) == srvPc[c] = "done"

\* C4 as stated: a clientID is a key iff a valid hello was received on its
\* connection and the connection has not terminated.
C4_KeyIffEstablished ==
    \A c \in Conns : InRegistry(c) <=> (HelloReceived(c) /\ conn[c] = "up")

\* C4 amended: every key belongs to a connection on which a valid hello was
\* received and whose handler has not returned; an established connection is a
\* key; once the handler has returned (it saw the termination) it is no key.
C4_KeyIffHandlerLive ==
    /\ \A k \in DOMAIN clients : \E c \in Conns : cid[c] = k /\ clients[k] = c
    /\ \A c \in Conns : InRegistry(c) <=> (HelloReceived(c) /\ ~HandlerReturned(c))
    /\ \A c \in Conns : (HelloReceived(c) /\ conn[c] = "up") => InRegistry(c)
    /\ \A c \in Conns : InRegistry(c) /\ conn[c] # "up" => srvPc[c] \in {"welcome", "wait"}
C4_Witness ==
    \E c \in Conns : \E d \in Conns :
        /\ HelloReceived(c) /\ HandlerReturned(c) /\ ~InRegistry(c)
        /\ InRegistry(d) /\ conn[d] = "down"

\* C5: every way a registered Session's handler ends removes its entry; once
\* its connection has terminated the entry is eventually removed; a removed
\* entry is never re-added; the entries of other Sessions are left unchanged.
C5_EntryRemovedOnTermination ==
    /\ [](\A c \in Conns : HandlerReturned(c) => ~InRegistry(c))
    /\ \A c \in Conns : (InRegistry(c) /\ conn[c] = "down") ~> ~InRegistry(c)
    /\ [][\A c \in Conns : (HelloReceived(c) /\ ~Registered(cid[c])) => ~Registered(cid[c])']_vars
    /\ [][\A c \in Conns : \A d \in Conns :
            (c # d /\ InRegistry(d) /\ InRegistry(c) /\ ~InRegistry(c)') => InRegistry(d)']_vars
C5_Witness ==
    \E c \in Conns : \E d \in Conns :
        /\ HelloReceived(c) /\ HandlerReturned(c) /\ ~Registered(cid[c])
        /\ InRegistry(d) /\ conn[d] = "up" /\ srvPc[d] = "wait"

\* the handler of c, not yet returned, has written its welcome message
WelcomeWritten(c) == srvPc[c] = "wait"

\* C6: a clientID that is a key of the registry has already had its welcome
\* message written to its stream.
C6_RegisteredOnlyAfterWelcome ==
    \A c \in Conns : InRegistry(c) => WelcomeWritten(c)

\* ------------------------------------------------------ the public path, as
\* the claims read it: /<first segment>[/<remainder>]
SegmentEnd(p) ==
    CHOOSE i \in 1..Len(p) :
        /\ i = Len(p) \/ p[i + 1] = "/"
        /\ \A j \in 2..i : p[j] # "/"
FirstSegment(p) == SubSeq(p, 2, SegmentEnd(p))
Remainder(p) == SubSeq(p, SegmentEnd(p) + 2, Len(p))
\* the first segment has at least 31 characters and contains a hyphen
ExplicitForm(p) ==
    /\ Len(FirstSegment(p)) >= IDLenThreshold + 1
    /\ \E i \in 1..Len(FirstSegment(p)) : FirstSegment(p)[i] = "-"
QuerySuffix(q) == IF q = <<>> THEN <<>> ELSE <<"?">> \o q
\* the call has chosen a clientID and a forwarded path and not yet returned
Routed(r) == hPc[r] \in {"load", "lock", "write", "read"}

\* C7: a first segment of explicit-ID form is the clientID and /<remainder>
\* (plus ?<query>) is forwarded, whatever the registry holds; any other first
\* segment is never the clientID.
C7_ExplicitIDRouting ==
    \A r \in Reqs :
        /\ (Routed(r) /\ ExplicitForm(hPath[r])) =>
              /\ hClientID[r] = FirstSegment(hPath[r])
              /\ hReqPath[r] = Slash \o Remainder(hPath[r]) \o QuerySuffix(hQuery[r])
        /\ (hPc[r] # "idle" /\ ExplicitForm(hPath[r])) =>
              /\ hStatus[r] \notin {StatusServiceUnavailable, StatusBadRequest}
              /\ hSeen[r] = {}
        /\ (Routed(r) /\ ~ExplicitForm(hPath[r])) =>
              /\ hClientID[r] # FirstSegment(hPath[r])
              /\ hClientID[r] \in hSeen[r]
C7_Witness ==
    \E r \in Reqs :
        /\ hPc[r] = "load"
        /\ ExplicitForm(hPath[r])
        /\ Remainder(hPath[r]) = <<>>
        /\ hReqPath[r] = <<"/", "?", "q">>
        /\ Cardinality(DOMAIN clients) = 2

\* C8 as stated: with no Session ever registered, every finished public
\* request has status 503.
C8_ZeroSessionsAlways503 ==
    \A r \in Reqs : (hPc[r] = "done" /\ nextID = 1) => hStatus[r] = StatusServiceUnavailable

\* C8 amended: with zero registered Sessions, a request with a bare path is
\* answered 503 when it is routed, and a request of explicit-ID form goes on
\* to the lookup, which answers 404 when the registry is (still) empty.
C8_ZeroSessions503Or404 ==
    [][\A r \in Reqs :
        DOMAIN clients = {} =>
          /\ (hPc[r] = "idle" /\ hPc'[r] # "idle") =>
                IF ExplicitForm(hPath'[r])
                THEN hPc'[r] = "load" /\ hStatus'[r] = 0
                ELSE hPc'[r] = "done" /\ hStatus'[r] = StatusServiceUnavailable
          /\ (hPc[r] = "load" /\ hPc'[r] # "load") =>
                hPc'[r] = "done" /\ hStatus'[r] = StatusNotFound]_vars
C8_Witness ==
    \E r \in Reqs :
        /\ hPc[r] = "done"
        /\ nextID = 1
        /\ ExplicitForm(hPath[r])
        /\ hStatus[r] = StatusNotFound

\* C9: a bare path that found exactly one registered Session is routed to it
\* and forwards the original path unmodified (plus ?<query>).
C9_SingleSessionBarePath ==
    \A r \in Reqs :
        (hPc[r] # "idle" /\ ~ExplicitForm(hPath[r]) /\ Cardinality(hSeen[r]) = 1) =>
            /\ hStatus[r] \notin {StatusServiceUnavailable, StatusBadRequest}
            /\ Routed(r) =>
                  /\ hClientID[r] \in hSeen[r]
                  /\ hReqPath[r] = hPath[r] \o QuerySuffix(hQuery[r])
            /\ Resolved(r) => cid[hInfo[r]] = hClientID[r]
C9_Witness ==
    \E r \in Reqs :
        /\ hPc[r] = "read"
        /\ ~ExplicitForm(hPath[r])
        /\ hQuery[r] # <<>>
        /\ Cardinality(hSeen[r]) = 1
        /\ cid[hInfo[r]] \in hSeen[r]

\* C10: a bare path that found two or more registered Sessions is answered
\* 400; the call writes no request message and acquires no Session lock.
C10_AmbiguousBarePath ==
    \A r \in Reqs :
        (hPc[r] # "idle" /\ ~ExplicitForm(hPath[r]) /\ Cardinality(hSeen[r]) >= 2) =>
            /\ hPc[r] = "done"
            /\ hStatus[r] = StatusBadRequest
            /\ nWrite[r] = 0
            /\ nLock[r] = 0
            /\ \A c \in Conns : mu[c] # r /\ \A i \in 1..Len(s2a[c]) : s2a[c][i].tag # r
C10_Witness ==
    \E r \in Reqs :
        /\ hStatus[r] = StatusBadRequest
        /\ Cardinality(hSeen[r]) >= 2
        /\ \E c \in Conns : srvPc[c] = "wait" /\ agPc[c] = "loop"

\* the call has written nothing to any stream and taken no lock
WroteNothing(r) ==
    /\ nWrite[r] = 0
    /\ nLock[r] = 0
    /\ \A c \in Conns : mu[c] # r /\ \A i \in 1..Len(s2a[c]) : s2a[c][i].tag # r

\* C11: the routing errors are 503 (no Session seen by a bare path), 400
\* (several Sessions seen by a bare path) and 404 (the chosen clientID is no
\* key at the lookup); an explicit-ID request whose clientID is no key is
\* answered 404 whatever else is registered (no fallback to the only
\* Session), and a call answered with a routing error has written nothing.
C11_RoutingErrors ==
    /\ [](\A r \in Reqs :
            /\ hStatus[r] \in {StatusServiceUnavailable, StatusBadRequest, StatusNotFound}
                  => hPc[r] = "done" /\ WroteNothing(r)
            /\ hStatus[r] = StatusServiceUnavailable
                  => ~ExplicitForm(hPath[r]) /\ hSeen[r] = {}
            /\ hStatus[r] = StatusBadRequest
                  => ~ExplicitForm(hPath[r]) /\ Cardinality(hSeen[r]) >= 2
            /\ (hStatus[r] = StatusNotFound /\ ~ExplicitForm(hPath[r]))
                  => Cardinality(hSeen[r]) = 1)
    /\ [][\A r \in Reqs :
            (hPc[r] = "load" /\ hPc'[r] # "load") =>
                /\ ~Registered(hClientID[r]) =>
                      /\ hPc'[r] = "done"
                      /\ hStatus'[r] = StatusNotFound
                      /\ s2a' = s2a /\ a2s' = a2s /\ mu' = mu
                /\ hStatus'[r] = StatusNotFound => ~Registered(hClientID[r])]_vars
C11_Witness ==
    \E r \in Reqs :
        /\ hPc[r] = "done"
        /\ hStatus[r] = StatusNotFound
        /\ ExplicitForm(hPath[r])
        /\ FirstSegment(hPath[r]) = LongID
        /\ \E c \in Conns : InRegistry(c) /\ srvPc[c] = "wait" /\ agPc[c] = "loop"
        /\ Cardinality(DOMAIN clients) = 1

\* C12: when the first message on a new stream is no hello, or reading it
\* fails, the handler of that connection returns: no clientID is generated or
\* registered, no welcome is written, the stream is closed, the registry and
\* the other connections' handlers are as before.
C12_WrongFirstMessage ==
    /\ [][\A c \in Conns :
            (/\ srvPc[c] = "hello"
             /\ srvPc'[c] # "hello"
             /\ (Broken(c) \/ Head(a2s[c]).type # MsgTypeHello)) =>
                /\ srvPc'[c] = "done"
                /\ cid'[c] = <<>>
                /\ nextID' = nextID
                /\ clients' = clients
                /\ s2a' = s2a
                /\ s2aFin'[c]
                /\ \A d \in Conns \ {c} : srvPc'[d] = srvPc[d] /\ conn'[d] = conn[d]]_vars
    /\ [](\A c \in Conns :
            (HandlerReturned(c) /\ ~HelloReceived(c)) =>
                /\ s2a[c] = <<>>
                /\ \A k \in DOMAIN clients : clients[k] # c)
C12_Witness ==
    \E c \in Conns : \E d \in Conns :
        /\ agPc[c] = "foreign"
        /\ conn[c] = "up"
        /\ a2s[c] = <<>>
        /\ HandlerReturned(c) /\ ~HelloReceived(c) /\ s2aFin[c]
        /\ InRegistry(d) /\ srvPc[d] = "wait"

\* the handler of c is in its handshake: waiting for the stream or the hello
InHandshake(c) == srvPc[c] \in {"accept", "hello"}

\* C13: the relay's wait for a hello is bounded: a handler in its handshake
\* eventually leaves it (it proceeds on a hello, or aborts without
\* registering), also when the peer keeps its connection up and never
\* completes a hello.
C13_HandshakeWaitBounded ==
    \A c \in Conns : InHandshake(c) ~> ~InHandshake(c)

\* the agent of c is established: Start has read a valid welcome
Established(c) == agPc[c] = "loop"
\* the next message for the agent of c is a welcome whose payload parses
ValidWelcomeNext(c) ==
    /\ ~Broken(c)
    /\ s2a[c] # <<>>
    /\ Head(s2a[c]).type = MsgTypeWelcome
    /\ Head(s2a[c]).valid

\* C14: the agent's first message is a hello with an empty payload, after
\* which it writes nothing while it waits for one message; it becomes
\* established only by reading a welcome whose payload parses; on any other
\* message or a failed read Start fails: no heartbeat, no request loop and no
\* response ever follow.
C14_AgentHandshake ==
    /\ [](\A c \in Conns :
            /\ (agPc[c] = "welcome" /\ conn[c] = "up") =>
                  a2s[c] = <<Message(MsgTypeHello, NoReq, 0)>> /\ hb[c] = 0
            /\ agPc[c] \in {"idle", "dialed", "failed"} => a2s[c] = <<>> /\ hb[c] = 0
            /\ agPc[c] = "failed" => conn[c] = "down")
    /\ [][\A c \in Conns :
            /\ (agPc[c] = "welcome" /\ agPc'[c] # "welcome") =>
                  agPc'[c] = IF ValidWelcomeNext(c) THEN "loop" ELSE "failed"
            /\ agPc[c] = "failed" =>
                  agPc'[c] = "failed" /\ a2s'[c] = a2s[c] /\ hb'[c] = hb[c]
            /\ Established(c)' => (Established(c) \/ ValidWelcomeNext(c))]_vars
C14_Witness ==
    \E c \in Conns :
        /\ agPc[c] = "failed"
        /\ hb[c] = 0
        /\ a2s[c] = <<>>
        /\ s2aFin[c]

\* this step, the agent of c takes a message off its stream in the request
\* loop and goes on (the step is neither its exit nor the connection's end)
AgentReads(c) ==
    /\ agPc[c] = "loop"
    /\ conn'[c] = "up"
    /\ s2a[c] # <<>>
    /\ Len(s2a'[c]) < Len(s2a[c])
\* this step appends to the agent -> relay direction one response to the
\* message at the head of the other direction
RespondsToHead(c) ==
    /\ Len(a2s'[c]) = Len(a2s[c]) + 1
    /\ SubSeq(a2s'[c], 1, Len(a2s[c])) = a2s[c]
    /\ a2s'[c][Len(a2s'[c])].type = MsgTypeResponse
    /\ a2s'[c][Len(a2s'[c])].tag = Head(s2a[c]).tag

\* C15: a request the agent handles is answered also when local forwarding
\* fails: the response written then has status 502 and a non-empty body, and
\* the request loop goes on.
C15_ForwardFailureAnswered ==
    /\ [](\A c \in Conns : \A i \in 1..Len(a2s[c]) :
            a2s[c][i].fwdErr =>
                /\ a2s[c][i].type = MsgTypeResponse
                /\ a2s[c][i].status = StatusBadGateway
                /\ a2s[c][i].body # <<>>)
    /\ [][\A c \in Conns :
            (AgentReads(c) /\ Head(s2a[c]).type = MsgTypeRequest /\ Head(s2a[c]).valid) =>
                /\ RespondsToHead(c)
                /\ agPc'[c] = "loop"]_vars
C15_Witness ==
    \E c \in Conns :
        /\ agPc[c] = "loop"
        /\ conn[c] = "up"
        /\ Len(a2s[c]) = 3
        /\ a2s[c][2].fwdErr
        /\ a2s[c][3].type = MsgTypeResponse /\ ~a2s[c][3].fwdErr

\* C20: every message of type request the agent reads, also one whose
\* payload does not parse, is followed by exactly one response written before
\* the next read (so responses keep the order of the requests); a message of
\* any other type is skipped and nothing is written.
C20_OneResponsePerRequest ==
    [][\A c \in Conns :
        AgentReads(c) =>
            IF Head(s2a[c]).type = MsgTypeRequest
            THEN RespondsToHead(c)
            ELSE a2s'[c] = a2s[c]]_vars

\* a step leaves direction q of a stream as q2: untouched, one message
\* longer, or without exactly its first message
OneMessageStep(q, q2) ==
    \/ q2 = q
    \/ Len(q2) = Len(q) + 1 /\ SubSeq(q2, 1, Len(q)) = q
    \/ q # <<>> /\ q2 = Tail(q)

\* C17: a ReadMessage call consumes exactly the first message of its
\* direction: while the connection lasts, what was written is read in
\* order, message by message, nothing lost, duplicated or merged.
C17_ReadTakesOneMessage ==
    [][\A c \in Conns :
        conn'[c] = "up" =>
            /\ OneMessageStep(s2a[c], s2a'[c])
            /\ OneMessageStep(a2s[c], a2s'[c])]_vars

\* the read of call r, were it taken now, fails the call: the connection is
\* gone, or the next message is no response, or its payload does not parse
ReadFails(r) ==
    \/ Broken(hInfo[r])
    \/ Head(a2s[hInfo[r]]).type # MsgTypeResponse
    \/ ~Head(a2s[hInfo[r]]).valid

\* C18: a relay call is failed with 502 exactly when its write fails, its
\* read fails, or the message read is no response or does not parse (else
\* the status of the response read is passed on); a failed call is over: it
\* writes no second request, and it leaves the registry as it was.
C18_BadGatewayExactly ==
    /\ [][\A r \in Reqs :
            /\ (hPc[r] = "write" /\ hPc'[r] # "write") =>
                  IF Broken(hInfo[r])
                  THEN /\ hPc'[r] = "done" /\ hStatus'[r] = StatusBadGateway
                       /\ nWrite'[r] = 0 /\ clients' = clients
                  ELSE hPc'[r] = "read" /\ hStatus'[r] = 0 /\ nWrite'[r] = 1
            /\ (hPc[r] = "read" /\ hPc'[r] # "read") =>
                  /\ hPc'[r] = "done"
                  /\ hStatus'[r] = IF ReadFails(r) THEN StatusBadGateway
                                   ELSE Head(a2s[hInfo[r]]).status
                  /\ nWrite'[r] = 1 /\ s2a' = s2a /\ clients' = clients
            /\ hPc[r] = "done" =>
                  hPc'[r] = "done" /\ hStatus'[r] = hStatus[r] /\ nWrite'[r] = nWrite[r]]_vars
    /\ [](\A c \in Conns : (srvPc[c] = "wait" /\ conn[c] = "up") => InRegistry(c))
C18_Witness ==
    \E r1 \in Reqs : \E r2 \in Reqs :
        /\ hPc[r1] = "done" /\ hStatus[r1] = StatusBadGateway /\ nWrite[r1] = 1
        /\ hPc[r2] = "done" /\ hStatus[r2] \in LocalStatuses
        /\ \E c \in Conns : conn[c] = "up" /\ InRegistry(c) /\ a2s[c] = <<>>

\* C19: a call blocked in its read holds the Session lock, and leaves the
\* read only on a message or on the connection's failure; a call waiting for
\* that lock cannot take it meanwhile; once the connection has failed, every
\* call resolved to the Session (the blocked one and the queued ones)
\* eventually returns 502, no longer holding the lock.
C19_BlockedUntilConnectionFails ==
    /\ [](\A r \in Reqs :
            hPc[r] = "read" =>
                /\ mu[hInfo[r]] = r
                /\ \A q \in Reqs :
                      (hPc[q] = "lock" /\ hInfo[q] = hInfo[r]) => ~ENABLED HTTPLock(q))
    /\ [][\A r \in Reqs :
            (hPc[r] = "read" /\ hPc'[r] # "read") =>
                (conn[hInfo[r]] = "down" \/ a2s[hInfo[r]] # <<>>)]_vars
    /\ \A r \in Reqs : \A c \in Conns :
          (Resolved(r) /\ hInfo[r] = c /\ conn[c] = "down")
              ~> (hPc[r] = "done" /\ hStatus[r] = StatusBadGateway /\ mu[c] # r)
C19_Witness ==
    \E r1 \in Reqs : \E r2 \in Reqs : \E c \in Conns :
        /\ conn[c] = "down"
        /\ hPc[r1] = "read" /\ hInfo[r1] = c /\ mu[c] = r1
        /\ hPc[r2] = "lock" /\ hInfo[r2] = c

\* t occurs in b at position i / for the first time at position i
OccursAt(b, t, i) == i >= 1 /\ i + Len(t) - 1 <= Len(b) /\ SubSeq(b, i, i + Len(t) - 1) = t
Occurs(b, t) == \E i \in 1..Len(b) : OccursAt(b, t, i)
FirstAt(b, t, i) == OccursAt(b, t, i) /\ \A j \in 1..(i - 1) : ~OccursAt(b, t, j)
\* b with ins put immediately after the first occurrence of t
InsertedAfterFirst(b, t, ins, out) ==
    \E i \in 1..Len(b) :
        /\ FirstAt(b, t, i)
        /\ out = SubSeq(b, 1, i + Len(t) - 1) \o ins \o SubSeq(b, i + Len(t), Len(b))
\* the first value of the response's Content-Type header contains text/html
IsHTML(resp) ==
    /\ KeyContentType \in DOMAIN resp.headers
    /\ resp.headers[KeyContentType] # <<>>
    /\ Occurs(resp.headers[KeyContentType][1], TextHTML)

\* C16: the body written for an HTML response is the agent's body with the
\* base tag of the clientID put once, right after the first <head>, or, when
\* there is no <head>, right after the first <HEAD>; without either tag, or
\* when the response is not HTML, the body is the agent's; the headers
\* written are always the agent's headers without Content-Length.
C16_ResponseRewriting ==
    rw.stage = "written" =>
        LET in == rw.resp
            out == rw.out
            tag == BaseTag(rw.clientID)
        IN
        /\ IF IsHTML(in) /\ Occurs(in.body, HeadLower)
           THEN InsertedAfterFirst(in.body, HeadLower, tag, out.body)
           ELSE IF IsHTML(in) /\ Occurs(in.body, HeadUpper)
                THEN InsertedAfterFirst(in.body, HeadUpper, tag, out.body)
                ELSE out.body = in.body
        /\ KeyContentLength \notin DOMAIN out.headers
        /\ \A k \in DOMAIN in.headers :
              CanonicalMIMEHeaderKey(k) # KeyContentLength =>
                  /\ CanonicalMIMEHeaderKey(k) \in DOMAIN out.headers
                  /\ out.headers[CanonicalMIMEHeaderKey(k)] = in.headers[k]
        /\ \A K \in DOMAIN out.headers :
              \E k \in DOMAIN in.headers : CanonicalMIMEHeaderKey(k) = K

\* C21: the Session lock is never leaked: a call takes it at most once and
\* holds it exactly from its Lock to the end of its write (when that fails)
\* or of its read; a returned call has released it as often as it took it; a
\* call answered before its write (routing error, body or message error)
\* never took it; a lock no call is in its cycle on is free.
C21_LockNeverLeaked ==
    /\ \A r \in Reqs :
          /\ nLock[r] <= 1
          /\ InCycle(r) => nLock[r] = 1 /\ nUnlock[r] = 0 /\ mu[hInfo[r]] = r
          /\ ~InCycle(r) => nUnlock[r] = nLock[r] /\ \A c \in Conns : mu[c] # r
          /\ hStatus[r] \in {StatusServiceUnavailable, StatusBadRequest, StatusNotFound,
                             StatusInternalServerError} => nLock[r] = 0
          /\ (hPc[r] = "done" /\ nWrite[r] = 1) => nLock[r] = 1 /\ nUnlock[r] = 1
    /\ \A c \in Conns :
          (\A r \in Reqs : ~(InCycle(r) /\ hInfo[r] = c)) => mu[c] = NoReq
C21_Witness ==
    \E r1 \in Reqs : \E r2 \in Reqs :
        /\ hPc[r1] = "done" /\ hStatus[r1] = StatusBadGateway
        /\ nWrite[r1] = 1 /\ nUnlock[r1] = 1
        /\ hPc[r2] = "done" /\ hStatus[r2] = StatusBadGateway
        /\ nWrite[r2] = 0 /\ nUnlock[r2] = 1
        /\ \A c \in Conns : mu[c] = NoReq

\* C22: a public request with a bare path is never answered 404, whatever
\* happens to the registry while it runs.
C22_BarePathNever404 ==
    \A r \in Reqs :
        (hPc[r] # "idle" /\ ~ExplicitForm(hPath[r])) => hStatus[r] # StatusNotFound

\* C24: on a Session's stream nothing is written towards the agent before
\* the welcome: while the handler has its welcome still to write, the relay
\* -> agent direction is empty (no request of a public call is on it).
C24_WelcomeWrittenFirst ==
    \A c \in Conns : srvPc[c] = "welcome" => s2a[c] = <<>>

\* C23: for every configuration Validate accepts, the public HTTP port
\* Port+1 is a valid port (1..65535), and the HTTP listener does not end the
\* process with a fatal error.
C23_DerivedPortValid ==
    srv.stage \in {"validated", "serving", "fatal"} =>
        /\ HTTPPort(srv.port) >= MinPort
        /\ HTTPPort(srv.port) <= MaxPort
        /\ srv.stage # "fatal"
====
